---- MODULE Spec2Model ----
(***************************************************************************)
(* A model of the library resolver of untitled-minecraft-launcher:         *)
(*   storage.rs     get_file          the hash-checked download cache      *)
(*   prism_meta.rs  name_to_path      coordinate -> relative path          *)
(*                  os_arch           the platform identifier              *)
(*                  download_library  rules, artifacts, natives            *)
(*   main.rs        login_msa_inner   the device-code login                *)
(*                                                                         *)
(* Strings whose characters the code inspects (names, paths, urls, hex     *)
(* digests) are tuples of one-character strings; byte vectors are tuples   *)
(* of numbers 0..255.  Option<T> is a tuple of length 0 (None) or 1.       *)
(***************************************************************************)
EXTENDS Integers, Sequences, FiniteSets, TLC

VARIABLES
    target,     \* std::env::consts of the build: [os, arch]
    files,      \* the filesystem's regular files: path -> bytes
    dirs,       \* the filesystem's directories: a set of paths
    fs0,        \* the filesystem when the call under study began
    gets,       \* the URLs of the HTTP GETs issued so far, in order
    gf,         \* the frame of the running get_file call
    dl,         \* the frame of the running download_library call
    np,         \* the frame of a name_to_path call made on its own
    tasks,      \* the frames of get_file calls that run concurrently
    scripts,    \* what the environment answers to each of those calls
    login       \* the frame of the running login_msa_inner call

vars == <<target, files, dirs, fs0, gets, gf, dl, np, tasks, scripts, login>>

(***************************************************************************)
(* Option and Result                                                       *)
(***************************************************************************)
None == <<>>
Some(x) == <<x>>
IsSome(o) == Len(o) = 1
Unwrap(o) == o[1]

\* anyhow::Result<Vec<u8>> and anyhow::Result<Vec<PathBuf>>: val is the
\* payload of Ok and err the message of Err.
Ok(v) == [ok |-> TRUE, val |-> v, err |-> ""]
Err(msg) == [ok |-> FALSE, val |-> <<>>, err |-> msg]
Pending == [ok |-> FALSE, val |-> <<>>, err |-> "pending"]

(***************************************************************************)
(* Bounds                                                                  *)
(***************************************************************************)
\* longest coordinate string enumerated exhaustively
MaxNameLen == 6
\* longest rule list enumerated exhaustively
MaxRules == 2
\* polls of the token endpoint that one login is followed through
MaxPolls == 3

(***************************************************************************)
(* LIBRARY_NAME_REGEX and name_to_path                                     *)
(***************************************************************************)
NameAlphabet == {"a", ".", ":", "@"}

\* [^:@]
NotSep(c) == c \notin {":", "@"}

\* [^:@]+ taken greedily from position i: the position of the run's last
\* character, i - 1 when the run is empty.
RECURSIVE RunEnd(_, _)
RunEnd(s, i) ==
    IF i <= Len(s) /\ NotSep(s[i]) THEN RunEnd(s, i + 1) ELSE i - 1

CharAt(s, i) == IF i >= 1 /\ i <= Len(s) THEN s[i] ELSE ""

NoMatch == [matched |-> FALSE]

\* the optional (?:@(?P<extension>[^:@]+))? after position me, given the
\* end ee of the run that starts at me + 2
MatchExtension(s, m, me, ee) ==
    IF CharAt(s, me + 1) = "@" /\ ee >= me + 2
    THEN [m EXCEPT !.to = ee, !.extension = Some(SubSeq(s, me + 2, ee))]
    ELSE [m EXCEPT !.to = me]

\* the optional (?::(?P<classifier>[^:@]+))? after position ve, given the
\* end ce of the run that starts at ve + 2
MatchClassifier(s, m, ve, ce) ==
    IF CharAt(s, ve + 1) = ":" /\ ce >= ve + 2
    THEN MatchExtension(s, [m EXCEPT !.classifier = Some(SubSeq(s, ve + 2, ce))],
                        ce, RunEnd(s, ce + 2))
    ELSE MatchExtension(s, m, ve, RunEnd(s, ve + 2))

\* (?P<version>[^:@]+), whose run from ne + 2 ends at ve
MatchVersion(s, m, ne, ve) ==
    IF ve >= ne + 2
    THEN MatchClassifier(s, [m EXCEPT !.version = SubSeq(s, ne + 2, ve)],
                         ve, RunEnd(s, ve + 2))
    ELSE NoMatch

\* (?P<name>[^:@]+): whose run from ge + 2 ends at ne
MatchName(s, m, ge, ne) ==
    IF ne >= ge + 2 /\ CharAt(s, ne + 1) = ":"
    THEN MatchVersion(s, [m EXCEPT !.name = SubSeq(s, ge + 2, ne)],
                      ne, RunEnd(s, ne + 2))
    ELSE NoMatch

\* (?P<group>[^:@]+): whose run from i ends at ge
MatchGroup(s, i, ge) ==
    IF ge >= i /\ CharAt(s, ge + 1) = ":"
    THEN MatchName(s, [matched |-> TRUE, from |-> i, to |-> 0,
                       group |-> SubSeq(s, i, ge), name |-> <<>>,
                       version |-> <<>>, classifier |-> None,
                       extension |-> None],
                   ge, RunEnd(s, ge + 2))
    ELSE NoMatch

\* One attempt of the regex at start position i.  Each mandatory field is
\* a maximal run followed by its separator (a shorter run would be followed
\* by a field character); the optional groups are greedy, so each is taken
\* whenever it can match.
MatchAt(s, i) == MatchGroup(s, i, RunEnd(s, i))

Leftmost(hits) ==
    IF hits = {} THEN None
    ELSE Some(CHOOSE m \in hits : \A n \in hits : m.from <= n.from)

\* Regex::captures: an unanchored search, the leftmost start that matches.
SwapGroupAndName(caps) ==
    IF caps = None THEN None
    ELSE Some([caps[1] EXCEPT !.group = caps[1].name, !.name = caps[1].group])
CapturesSwapped(s) ==
    SwapGroupAndName(Leftmost({m \in {MatchAt(s, i) : i \in 1..Len(s)} : m.matched}))

Captures(s) == Leftmost({m \in {MatchAt(s, i) : i \in 1..Len(s)} : m.matched})

\* str::replace(".", "/")
ReplaceDotsKept(s) == s

ReplaceDots(s) == [i \in 1..Len(s) |-> IF s[i] = "." THEN "/" ELSE s[i]]

JAR == <<"j", "a", "r">>

\* lines 198-212: the file name, given the effective classifier
FileName(c, cls, ext) ==
    IF IsSome(cls)
    THEN c.name \o <<"-">> \o c.version \o <<"-">> \o Unwrap(cls) \o <<".">> \o ext
    ELSE c.name \o <<"-">> \o c.version \o <<".">> \o ext

\* lines 194-220, on the captures c
PathOfCaptures(c, classifier) ==
    ReplaceDots(c.group) \o <<"/">> \o c.name \o <<"/">> \o c.version \o <<"/">>
        \o FileName(c,
                    IF IsSome(classifier) THEN classifier ELSE c.classifier,
                    IF IsSome(c.extension) THEN Unwrap(c.extension) ELSE JAR)

\* Option::map over the captures of line 193
MapCaptures(caps, classifier) ==
    IF IsSome(caps) THEN Some(PathOfCaptures(Unwrap(caps), classifier)) ELSE None

NameToPath(name, classifier) == MapCaptures(Captures(name), classifier)

(***************************************************************************)
(* name_to_path called on its own, on every short string                   *)
(***************************************************************************)
Strings(alphabet, n) == UNION {[1..k -> alphabet] : k \in 0..n}

\* coordinates longer than MaxNameLen that use both optional fields
SampleNames ==
    { <<"a", ".", "a", ":", "a", ":", "a", ":", "a", "@", "a">>,
      <<"a", ":", "a", ":", "a", "@", "a">>,
      <<"a", ":", "a", ":", "a", ":", "a", ":", "a">> }

ClassifierOverrides == {None, Some(<<"n">>)}

IdleNp == [pc |-> "idle", name |-> <<>>, classifier |-> None, out |-> None]
IdleGf ==
    [pc |-> "idle", path |-> <<>>, url |-> <<>>, redownload |-> FALSE,
     sha1 |-> None, client |-> "none", resp |-> None,
     result |-> [ok |-> FALSE, val |-> <<>>, err |-> "pending"]]
IdleDl == [pc |-> "idle", exit |-> "running"]
IdleLogin == [pc |-> "idle"]

InitParse ==
    /\ target = [os |-> "linux", arch |-> "x86_64"]
    /\ files = <<>> /\ dirs = {} /\ fs0 = [files |-> <<>>, dirs |-> {}]
    /\ gets = <<>>
    /\ gf = IdleGf
    /\ dl = IdleDl
    /\ tasks = <<>> /\ scripts = <<>> /\ login = IdleLogin
    /\ \E n \in Strings(NameAlphabet, MaxNameLen) \cup SampleNames,
          c \in ClassifierOverrides :
            np = [pc |-> "call", name |-> n, classifier |-> c, out |-> None]

NameToPathCall ==
    /\ np.pc = "call"
    /\ np' = [np EXCEPT !.pc = "done", !.out = NameToPath(np.name, np.classifier)]
    /\ UNCHANGED <<target, files, dirs, fs0, gets, gf, dl, tasks, scripts, login>>

NextParse == NameToPathCall

SpecParse == InitParse /\ [][NextParse]_vars

(***************************************************************************)
(* Paths and the filesystem                                                *)
(***************************************************************************)
RECURSIVE StripSlashes(_)
\* a directory prefix without its trailing separators (the root stays "/")
StripSlashes(p) ==
    IF Len(p) > 1 /\ p[Len(p)] = "/" THEN StripSlashes(SubSeq(p, 1, Len(p) - 1))
    ELSE p

\* Path::parent: None for the empty path and the root, Some("") for a bare
\* file name.
Parent(p) ==
    LET q      == StripSlashes(p)
        slashes == {i \in 1..Len(q) : q[i] = "/"}
        k      == CHOOSE i \in slashes : \A j \in slashes : j <= i
    IN  IF q = <<>> \/ q = <<"/">> THEN None
        ELSE IF slashes = {} THEN Some(<<>>)
        ELSE IF k = 1 THEN Some(<<"/">>)
        ELSE Some(StripSlashes(SubSeq(q, 1, k - 1)))

\* the directories create_dir_all(d) makes sure exist: d and its ancestors
\* (none for the empty path, which create_dir_all accepts as is)
RECURSIVE Ancestors(_)
Ancestors(d) ==
    IF d = <<>> THEN {}
    ELSE {d} \cup (IF IsSome(Parent(d)) THEN Ancestors(Unwrap(Parent(d))) ELSE {})

\* PathBuf::push: an absolute argument replaces the path
PathPush(base, rel) ==
    IF Len(rel) > 0 /\ rel[1] = "/" THEN rel
    ELSE IF Len(base) = 0 \/ base[Len(base)] = "/" THEN base \o rel
    ELSE base \o <<"/">> \o rel

NoFiles == [p \in {} |-> <<>>]

\* tokio::fs::read
ReadFile(fsFiles, p) == IF p \in DOMAIN fsFiles THEN Some(fsFiles[p]) ELSE None

\* the files after a whole-file write of data to p
WriteFileOnly(fsFiles, p, data) == [q \in {p} |-> data]

WriteFile(fsFiles, p, data) ==
    [q \in DOMAIN fsFiles \cup {p} |-> IF q = p THEN data ELSE fsFiles[q]]

\* file contents and response bodies
Bodies == {<<>>, <<97>>, <<97, 98, 99>>}

\* The filesystems a call may start from: any of the paths may hold a
\* file, a file's directories exist, and the other parent directories may.
InitialFs(paths) ==
    LET parents == UNION {Ancestors(Unwrap(Parent(p))) : p \in paths} IN
    { [files |-> f,
       dirs  |-> UNION {Ancestors(Unwrap(Parent(p))) : p \in DOMAIN f} \cup extra] :
         f \in UNION {[S -> Bodies] : S \in SUBSET paths},
         extra \in {{}, parents} }

(***************************************************************************)
(* hex::decode and Sha1::digest                                            *)
(***************************************************************************)
HexChars == <<"0", "1", "2", "3", "4", "5", "6", "7", "8", "9",
              "a", "b", "c", "d", "e", "f">>
HexUpper == <<"0", "1", "2", "3", "4", "5", "6", "7", "8", "9",
              "A", "B", "C", "D", "E", "F">>

\* the value of a hex digit of either case, -1 for any other character
HexVal(c) ==
    IF \E i \in 1..16 : HexChars[i] = c
    THEN (CHOOSE i \in 1..16 : HexChars[i] = c) - 1
    ELSE IF \E i \in 1..16 : HexUpper[i] = c
    THEN (CHOOSE i \in 1..16 : HexUpper[i] = c) - 1
    ELSE -1

\* hex::decode: None stands for Err(OddLength | InvalidHexCharacter)
HexDecode(s) ==
    IF Len(s) % 2 # 0 THEN None
    ELSE IF \E i \in 1..Len(s) : HexVal(s[i]) < 0 THEN None
    ELSE Some([i \in 1..(Len(s) \div 2) |->
                  16 * HexVal(s[2 * i - 1]) + HexVal(s[2 * i])])

\* Sha1::digest on the modelled contents.  The digests are the leading two
\* bytes of the real ones (da39a3ee.., 86f7e437.., a9993e36..), which keeps
\* the expected hex strings at four characters.
Sha1Digest(bytes) ==
    CASE bytes = <<>>           -> <<218, 57>>
      [] bytes = <<97>>         -> <<134, 247>>
      [] bytes = <<97, 98, 99>> -> <<169, 153>>

(***************************************************************************)
(* storage.rs: get_file                                                    *)
(***************************************************************************)
\* The url crate accepts a string as an absolute URL only with a scheme: a
\* letter, then letters, digits, '+', '-' or '.', up to a ':'.
Letters == {"a", "h", "p", "s", "t", "x"}
UrlParses(url) ==
    \E k \in 2..Len(url) :
        /\ url[k] = ":"
        /\ url[1] \in Letters
        /\ \A i \in 1..(k - 1) : url[i] \in Letters \cup {"+", "-", "."}

Statuses == {200, 404, 500}
TransportError == [transport |-> FALSE, status |-> 0, data |-> <<>>]
\* what client.send(..).await?.bytes().await? can produce
Responses ==
    {TransportError}
        \cup {[transport |-> TRUE, status |-> st, data |-> b] :
                  st \in Statuses, b \in Bodies}

GetFileCall(path, url, redownload, sha1) ==
    [pc |-> "read", path |-> path, url |-> url, redownload |-> redownload,
     sha1 |-> sha1, client |-> "none", resp |-> None, result |-> Pending]

\* lines 12-24: what follows the local read.  next = "done" returns result,
\* next = "client" falls through to the download.
CheckLocalInverted(redownload, file, sha1) ==
    IF redownload /\ IsSome(file)
    THEN [next |-> "done", result |-> Ok(Unwrap(file))]
    ELSE [next |-> "client", result |-> Pending]

CheckLocal(redownload, file, sha1) ==
    IF ~redownload /\ IsSome(file)
    THEN IF IsSome(sha1)
         THEN LET decoded == HexDecode(Unwrap(sha1)) IN
              IF ~IsSome(decoded)
              THEN [next |-> "done", result |-> Err("hex::decode")]
              ELSE IF Unwrap(decoded) = Sha1Digest(Unwrap(file))
              THEN [next |-> "done", result |-> Ok(Unwrap(file))]
              ELSE [next |-> "client", result |-> Pending]
         ELSE [next |-> "done", result |-> Ok(Unwrap(file))]
    ELSE [next |-> "client", result |-> Pending]

\* line 13 and what it decides: the read is skipped when redownload is set
GfRead ==
    /\ gf.pc = "read"
    /\ LET file == IF gf.redownload THEN None ELSE ReadFile(files, gf.path)
           c    == CheckLocal(gf.redownload, file, gf.sha1)
       IN  gf' = [gf EXCEPT !.pc = c.next, !.result = c.result]
    /\ UNCHANGED <<target, files, dirs, fs0, gets, dl, np, tasks, scripts, login>>

\* lines 25-27: ClientBuilder::new().build()? and HttpRequestBuilder::new?
GfBuildRequest ==
    /\ gf.pc = "client"
    /\ \E built \in BOOLEAN :
         gf' = IF ~built
               THEN [gf EXCEPT !.pc = "done", !.client = "failed",
                               !.result = Err("client")]
               ELSE IF ~UrlParses(gf.url)
               THEN [gf EXCEPT !.pc = "done", !.client = "built",
                               !.result = Err("url")]
               ELSE [gf EXCEPT !.pc = "send", !.client = "built"]
    /\ UNCHANGED <<target, files, dirs, fs0, gets, dl, np, tasks, scripts, login>>

\* lines 31-33: where the call goes after a response with this status
AfterStatusRetry(status) == IF status # 200 THEN "send" ELSE "mkdir"
AfterStatusIgnored(status) == "mkdir"

AfterStatus(status) == IF status # 200 THEN "done" ELSE "mkdir"

\* lines 26-33: the GET, its body and the status check
GfSend ==
    /\ gf.pc = "send"
    /\ gets' = Append(gets, gf.url)
    /\ \E r \in Responses :
         gf' = IF ~r.transport
               THEN [gf EXCEPT !.pc = "done", !.result = Err("transport")]
               ELSE LET next == AfterStatus(r.status) IN
                    [gf EXCEPT !.pc = next, !.resp = Some(r),
                               !.result = IF next = "done"
                                          THEN Err("status") ELSE Pending]
    /\ UNCHANGED <<target, files, dirs, fs0, dl, np, tasks, scripts, login>>

\* lines 34-36: create_dir_all(parent), which may fail
GfCreateDir ==
    /\ gf.pc = "mkdir"
    /\ LET parent == Parent(gf.path) IN
       \E ok \in BOOLEAN :
         IF ~IsSome(parent)
         THEN gf' = [gf EXCEPT !.pc = "write"] /\ dirs' = dirs
         ELSE IF ok
         THEN /\ gf' = [gf EXCEPT !.pc = "write"]
              /\ dirs' = dirs \cup Ancestors(Unwrap(parent))
         ELSE /\ gf' = [gf EXCEPT !.pc = "done", !.result = Err("create_dir_all")]
              /\ dirs' = dirs
    /\ UNCHANGED <<target, files, fs0, gets, dl, np, tasks, scripts, login>>

\* what a failed write can leave at the path: nothing new, or a file cut short
FailedWrites(fsFiles, p, data) ==
    {fsFiles} \cup {WriteFile(fsFiles, p, SubSeq(data, 1, k)) : k \in 0..(Len(data) - 1)}

\* lines 37-38: the write and the return of the body
GfWrite ==
    /\ gf.pc = "write"
    /\ LET data == Unwrap(gf.resp).data IN
       \E ok \in BOOLEAN :
         IF ok
         THEN /\ files' = WriteFile(files, gf.path, data)
              /\ gf' = [gf EXCEPT !.pc = "done", !.result = Ok(data)]
         ELSE /\ files' \in FailedWrites(files, gf.path, data)
              /\ gf' = [gf EXCEPT !.pc = "done", !.result = Err("write")]
    /\ UNCHANGED <<target, dirs, fs0, gets, dl, np, tasks, scripts, login>>

GetFileStep == GfRead \/ GfBuildRequest \/ GfSend \/ GfCreateDir \/ GfWrite

(***************************************************************************)
(* get_file called on its own                                              *)
(***************************************************************************)
GfPaths == {<<"c", "/", "f">>, <<"f">>}
GfUrls == {<<"h", ":", "/", "/", "s", "/", "f">>, <<"s", "/", "f">>}
\* expected digests: those of the three bodies (one in upper case), a
\* digest of another length, an odd-length string and a non-hex character
GfSha1s ==
    {None,
     Some(<<"d", "a", "3", "9">>), Some(<<"D", "A", "3", "9">>),
     Some(<<"8", "6", "f", "7">>), Some(<<"a", "9", "9", "9">>),
     Some(<<"d", "a">>), Some(<<"d", "a", "3">>), Some(<<"d", "g", "3", "9">>)}

Init ==
    /\ target = [os |-> "linux", arch |-> "x86_64"]
    /\ gets = <<>>
    /\ dl = IdleDl
    /\ np = IdleNp
    /\ tasks = <<>> /\ scripts = <<>> /\ login = IdleLogin
    /\ \E path \in GfPaths, url \in GfUrls, redownload \in BOOLEAN, sha1 \in GfSha1s :
         gf = GetFileCall(path, url, redownload, sha1)
    /\ fs0 \in InitialFs(GfPaths)
    /\ files = fs0.files
    /\ dirs = fs0.dirs

Next == GfRead \/ GfBuildRequest \/ GfSend \/ GfCreateDir \/ GfWrite

Spec == Init /\ [][Next]_vars

(***************************************************************************)
(* get_file calls that run concurrently                                    *)
(*                                                                         *)
(* Each call meets an environment whose answers are drawn beforehand (its  *)
(* script), so that the same call can be replayed in another order.  What  *)
(* the calls can do to each other goes through the filesystem, where a     *)
(* path is a file or a directory, never both.                              *)
(***************************************************************************)
\* create_dir_all(d) fails when d or one of its ancestors is a regular file
CanCreateDirAll(fsFiles, d) == \A a \in Ancestors(d) : a \notin DOMAIN fsFiles

\* write(p, ..) fails when p is a directory
CanWrite(fsDirs, p) == p \notin fsDirs

Stepped(frame, fsFiles, fsDirs, get) ==
    [gf |-> frame, files |-> fsFiles, dirs |-> fsDirs, get |-> get]

\* lines 12-24
StepRead(f, fsFiles, fsDirs, local) ==
    Stepped([f EXCEPT !.pc = local.next, !.result = local.result],
            fsFiles, fsDirs, FALSE)

\* lines 25-27
StepBuildRequest(f, fsFiles, fsDirs, e) ==
    Stepped(IF ~e.built
            THEN [f EXCEPT !.pc = "done", !.client = "failed", !.result = Err("client")]
            ELSE IF ~UrlParses(f.url)
            THEN [f EXCEPT !.pc = "done", !.client = "built", !.result = Err("url")]
            ELSE [f EXCEPT !.pc = "send", !.client = "built"],
            fsFiles, fsDirs, FALSE)

\* lines 26-33
StepSend(f, fsFiles, fsDirs, r, next) ==
    Stepped(IF ~r.transport
            THEN [f EXCEPT !.pc = "done", !.result = Err("transport")]
            ELSE [f EXCEPT !.pc = next, !.resp = Some(r),
                           !.result = IF next = "done" THEN Err("status")
                                      ELSE Pending],
            fsFiles, fsDirs, TRUE)

\* lines 34-36
StepCreateDir(f, fsFiles, fsDirs, e, parent) ==
    IF ~IsSome(parent)
    THEN Stepped([f EXCEPT !.pc = "write"], fsFiles, fsDirs, FALSE)
    ELSE IF e.mkdir_ok /\ CanCreateDirAll(fsFiles, Unwrap(parent))
    THEN Stepped([f EXCEPT !.pc = "write"], fsFiles,
                 fsDirs \cup Ancestors(Unwrap(parent)), FALSE)
    ELSE Stepped([f EXCEPT !.pc = "done", !.result = Err("create_dir_all")],
                 fsFiles, fsDirs, FALSE)

\* lines 37-38; a write that fails on its own leaves the file empty
StepWrite(f, fsFiles, fsDirs, e, data) ==
    IF ~CanWrite(fsDirs, f.path)
    THEN Stepped([f EXCEPT !.pc = "done", !.result = Err("write")],
                 fsFiles, fsDirs, FALSE)
    ELSE IF ~e.write_ok
    THEN Stepped([f EXCEPT !.pc = "done", !.result = Err("write")],
                 WriteFile(fsFiles, f.path, <<>>), fsDirs, FALSE)
    ELSE Stepped([f EXCEPT !.pc = "done", !.result = Ok(data)],
                 WriteFile(fsFiles, f.path, data), fsDirs, FALSE)

\* one step of the call with frame f, under the script e
GfStep(f, fsFiles, fsDirs, e) ==
    CASE f.pc = "read" ->
           StepRead(f, fsFiles, fsDirs,
                    CheckLocal(f.redownload,
                               IF f.redownload THEN None
                               ELSE ReadFile(fsFiles, f.path),
                               f.sha1))
      [] f.pc = "client" -> StepBuildRequest(f, fsFiles, fsDirs, e)
      [] f.pc = "send" ->
           StepSend(f, fsFiles, fsDirs, e.resp, AfterStatus(e.resp.status))
      [] f.pc = "mkdir" -> StepCreateDir(f, fsFiles, fsDirs, e, Parent(f.path))
      [] f.pc = "write" -> StepWrite(f, fsFiles, fsDirs, e, Unwrap(f.resp).data)

\* the call run from step to step until it returns
RECURSIVE RunCall(_, _)
RunCall(s, e) ==
    IF s.gf.pc = "done" THEN s
    ELSE RunCall(GfStep(s.gf, s.files, s.dirs, e), e)

\* task t takes its next step
TaskStep(t, s) ==
    /\ tasks' = [tasks EXCEPT ![t] = s.gf]
    /\ files' = s.files
    /\ dirs' = s.dirs
    /\ gets' = IF s.get THEN Append(gets, tasks[t].url) ELSE gets
    /\ UNCHANGED <<target, fs0, gf, dl, np, scripts, login>>

TaskAt(t, pc) == t \in DOMAIN tasks /\ tasks[t].pc = pc

TaskRead(t) ==
    TaskAt(t, "read") /\ TaskStep(t, GfStep(tasks[t], files, dirs, scripts[t]))
TaskBuildRequest(t) ==
    TaskAt(t, "client") /\ TaskStep(t, GfStep(tasks[t], files, dirs, scripts[t]))
TaskSend(t) ==
    TaskAt(t, "send") /\ TaskStep(t, GfStep(tasks[t], files, dirs, scripts[t]))
TaskCreateDir(t) ==
    TaskAt(t, "mkdir") /\ TaskStep(t, GfStep(tasks[t], files, dirs, scripts[t]))
TaskWrite(t) ==
    TaskAt(t, "write") /\ TaskStep(t, GfStep(tasks[t], files, dirs, scripts[t]))

\* the environment's answers to one call
Script(built, resp, mkdir_ok, write_ok) ==
    [built |-> built, resp |-> resp, mkdir_ok |-> mkdir_ok, write_ok |-> write_ok]
Served == [transport |-> TRUE, status |-> 200, data |-> <<97>>]
Scripts ==
    {Script(FALSE, TransportError, TRUE, TRUE),
     Script(TRUE, TransportError, TRUE, TRUE),
     Script(TRUE, [transport |-> TRUE, status |-> 404, data |-> <<>>], TRUE, TRUE),
     Script(TRUE, Served, TRUE, TRUE),
     Script(TRUE, Served, FALSE, TRUE),
     Script(TRUE, Served, TRUE, FALSE)}

\* two paths in one directory, and a path with one that lies under it
ConcPathPairs ==
    {<< <<"c", "/", "f">>, <<"c", "/", "g">> >>,
     << <<"c">>, <<"c", "/", "f">> >>}

\* the filesystems over these paths: c absent, a file, or a directory
\* holding any of f and g
ConcFs ==
    {[files |-> NoFiles, dirs |-> {}],
     [files |-> [p \in {<<"c">>} |-> <<97>>], dirs |-> {}]}
        \cup {[files |-> [p \in S |-> <<97>>], dirs |-> {<<"c">>}] :
                  S \in SUBSET {<<"c", "/", "f">>, <<"c", "/", "g">>}}

ConcSha1s == {None, Some(<<"8", "6", "f", "7">>), Some(<<"d", "a", "3", "9">>)}

ConcCalls(path) ==
    {GetFileCall(path, <<"h", ":", "/", "/", "s", "/", "f">>, redownload, sha1) :
        redownload \in BOOLEAN, sha1 \in ConcSha1s}

InitConc ==
    /\ target = [os |-> "linux", arch |-> "x86_64"]
    /\ gets = <<>>
    /\ gf = IdleGf /\ dl = IdleDl /\ np = IdleNp /\ login = IdleLogin
    /\ \E pair \in ConcPathPairs :
         \E c1 \in ConcCalls(pair[1]), c2 \in ConcCalls(pair[2]) :
            tasks = <<c1, c2>>
    /\ scripts \in [1..2 -> Scripts]
    /\ fs0 \in ConcFs
    /\ files = fs0.files
    /\ dirs = fs0.dirs

NextConc ==
    \E t \in 1..2 :
        TaskRead(t) \/ TaskBuildRequest(t) \/ TaskSend(t) \/ TaskCreateDir(t)
            \/ TaskWrite(t)

SpecConc == InitConc /\ [][NextConc]_vars

(***************************************************************************)
(* prism_meta.rs: cur_arch, cur_os, os_arch                                *)
(***************************************************************************)
CurArch(t) ==
    CASE t.arch = "x86"     -> "x86"
      [] t.arch = "x86_64"  -> "x86_64"
      [] t.arch = "aarch64" -> "arm64"
      [] t.arch = "arm"     -> "arm32"
      [] OTHER              -> "unknown"

CurOs(t) ==
    CASE t.os = "linux"   -> "linux"
      [] t.os = "macos"   -> "osx"
      [] t.os = "windows" -> "windows"
      [] OTHER            -> "unknown"

OsArchLong(t) == CurOs(t) \o "-" \o CurArch(t)

OsArch(t) ==
    IF CurArch(t) = "x86" \/ CurArch(t) = "x86_64"
    THEN CurOs(t)
    ELSE CurOs(t) \o "-" \o CurArch(t)

(***************************************************************************)
(* prism_meta.rs: download_library                                         *)
(***************************************************************************)
\* "https://libraries.minecraft.net/"
LIBRARY_BASE_URL ==
    <<"h", "t", "t", "p", "s", ":", "/", "/", "l", "i", "b", "r", "a", "r",
      "i", "e", "s", ".", "m", "i", "n", "e", "c", "r", "a", "f", "t", ".",
      "n", "e", "t", "/">>

\* str::ends_with('/')
EndsWithSlashAlways(s) == TRUE

EndsWithSlash(s) == Len(s) > 0 /\ s[Len(s)] = "/"

\* lines 257-269: one turn of the loop over the rules
ApplyRuleAnyOs(rule, allowed, platform) == rule.action = "Allow"

ApplyRule(rule, allowed, platform) ==
    IF IsSome(rule.os)
    THEN IF Unwrap(rule.os).name = platform
         THEN rule.action = "Allow"
         ELSE allowed
    ELSE rule.action = "Allow"

\* lines 255-270: the loop, from rule i on, with the running decision
RECURSIVE EvalRules(_, _, _, _)
EvalRules(rules, i, allowed, platform) ==
    IF i > Len(rules) THEN allowed
    ELSE EvalRules(rules, i + 1, ApplyRule(rules[i], allowed, platform), platform)

\* fetches records the arguments of every get_file call the frame has made
DownloadLibraryCall(base_path, library) ==
    [pc |-> "rules", base_path |-> base_path, library |-> library,
     allowed |-> FALSE, path |-> <<>>, downloaded |-> <<>>,
     fetches |-> <<>>, exit |-> "running", result |-> Pending]

\* the frame while it awaits the get_file call it has just made
Fetch(frame, pc, call) ==
    [frame EXCEPT !.pc = pc, !.path = call.path,
                  !.fetches = Append(@, [path |-> call.path, url |-> call.url,
                                         redownload |-> call.redownload,
                                         sha1 |-> call.sha1])]

Return(frame, exit, result) ==
    [frame EXCEPT !.pc = "done", !.exit = exit, !.result = result]

\* lines 254-275: the rules; "not_needed" is the return of line 273
LibRulesParsing ==
    /\ dl.pc = "rules"
    /\ LET rules == dl.library.rules IN
       IF IsSome(rules)
       THEN LET allowed == EvalRules(Unwrap(rules), 1, FALSE, OsArch(target)) IN
            dl' = IF allowed
                  THEN [dl EXCEPT !.pc = "match", !.allowed = allowed]
                  ELSE IF IsSome(NameToPath(dl.library.name, None))
                  THEN Return([dl EXCEPT !.allowed = allowed], "not_needed", Ok(<<>>))
                  ELSE Return([dl EXCEPT !.allowed = allowed], "error",
                              Err("Can't get path from name"))
       ELSE dl' = [dl EXCEPT !.pc = "match"]
    /\ UNCHANGED <<target, files, dirs, fs0, gets, gf, np, tasks, scripts, login>>

LibRules ==
    /\ dl.pc = "rules"
    /\ LET rules == dl.library.rules IN
       IF IsSome(rules)
       THEN LET allowed == EvalRules(Unwrap(rules), 1, FALSE, OsArch(target)) IN
            dl' = IF ~allowed
                  THEN Return([dl EXCEPT !.allowed = allowed], "not_needed", Ok(<<>>))
                  ELSE [dl EXCEPT !.pc = "match", !.allowed = allowed]
       ELSE dl' = [dl EXCEPT !.pc = "match"]
    /\ UNCHANGED <<target, files, dirs, fs0, gets, gf, np, tasks, scripts, login>>

\* line 277: match library.downloads
LibMatchDerived ==
    /\ dl.pc = "match"
    /\ dl' = [dl EXCEPT !.pc = "derived"]
    /\ UNCHANGED <<target, files, dirs, fs0, gets, gf, np, tasks, scripts, login>>

LibMatch ==
    /\ dl.pc = "match"
    /\ dl' = [dl EXCEPT !.pc = IF IsSome(dl.library.downloads)
                               THEN "primary" ELSE "derived"]
    /\ UNCHANGED <<target, files, dirs, fs0, gets, gf, np, tasks, scripts, login>>

\* lines 279-284: the primary artifact, up to the call of get_file
LibPrimary ==
    /\ dl.pc = "primary"
    /\ LET artifact == Unwrap(dl.library.downloads).artifact
           rel      == NameToPath(dl.library.name, None)
       IN  IF ~IsSome(artifact)
           THEN dl' = [dl EXCEPT !.pc = "natives"] /\ gf' = gf
           ELSE IF ~IsSome(rel)
           THEN /\ dl' = Return(dl, "error", Err("Can't get path from name"))
                /\ gf' = gf
           ELSE LET path == PathPush(dl.base_path, Unwrap(rel))
                    call == GetFileCall(path, Unwrap(artifact).url, FALSE,
                                        Some(Unwrap(artifact).sha1))
                IN  /\ dl' = Fetch(dl, "await_primary", call)
                    /\ gf' = call
    /\ UNCHANGED <<target, files, dirs, fs0, gets, np, tasks, scripts, login>>

\* lines 287-298: the native artifact, up to the call of get_file
LibNativesSkipped ==
    /\ dl.pc = "natives"
    /\ dl' = Return(dl, "end", Ok(dl.downloaded))
    /\ UNCHANGED <<target, files, dirs, fs0, gets, gf, np, tasks, scripts, login>>

LibNatives ==
    /\ dl.pc = "natives"
    /\ LET natives     == dl.library.natives
           classifiers == Unwrap(dl.library.downloads).classifiers
           key         == OsArch(target)
       IN  IF ~(IsSome(natives) /\ key \in DOMAIN Unwrap(natives))
           THEN dl' = Return(dl, "end", Ok(dl.downloaded)) /\ gf' = gf
           ELSE LET native == Unwrap(natives)[key]
                    rel    == NameToPath(dl.library.name, Some(native))
                IN  IF ~IsSome(classifiers)
                    THEN /\ dl' = Return(dl, "error", Err("Can't get classifiers"))
                         /\ gf' = gf
                    ELSE IF native \notin DOMAIN Unwrap(classifiers)
                    THEN /\ dl' = Return(dl, "error", Err("Can't get native"))
                         /\ gf' = gf
                    ELSE IF ~IsSome(rel)
                    THEN /\ dl' = Return(dl, "error", Err("Can't get path from name"))
                         /\ gf' = gf
                    ELSE LET path     == PathPush(dl.base_path, Unwrap(rel))
                             artifact == Unwrap(classifiers)[native]
                             call     == GetFileCall(path, artifact.url, FALSE,
                                                     Some(artifact.sha1))
                         IN  /\ dl' = Fetch(dl, "await_native", call)
                             /\ gf' = call
    /\ UNCHANGED <<target, files, dirs, fs0, gets, np, tasks, scripts, login>>

\* lines 305-319: the derived url, up to the call of get_file
LibDerived ==
    /\ dl.pc = "derived"
    /\ LET base == IF IsSome(dl.library.url) THEN Unwrap(dl.library.url)
                   ELSE LIBRARY_BASE_URL
           rel  == NameToPath(dl.library.name, None)
           url  == IF EndsWithSlash(base) THEN base \o Unwrap(rel) ELSE base
       IN  IF ~IsSome(rel)
           THEN /\ dl' = Return(dl, "error", Err("Can't get path from name"))
                /\ gf' = gf
           ELSE LET path == PathPush(dl.base_path, Unwrap(rel))
                    call == GetFileCall(path, url,
                                        dl.library.hint = Some("AlwaysStale"), None)
                IN  /\ dl' = Fetch(dl, "await_derived", call)
                    /\ gf' = call
    /\ UNCHANGED <<target, files, dirs, fs0, gets, np, tasks, scripts, login>>

\* lines 284-285, 298-300, 320-321: get_file has returned; `?` passes its
\* error on, otherwise the path is pushed
LibFetched ==
    /\ dl.pc \in {"await_primary", "await_native", "await_derived"}
    /\ gf.pc = "done"
    /\ dl' = IF ~gf.result.ok
             THEN Return(dl, "error", Err(gf.result.err))
             ELSE LET downloaded == Append(dl.downloaded, dl.path) IN
                  IF dl.pc = "await_primary"
                  THEN [dl EXCEPT !.pc = "natives", !.downloaded = downloaded]
                  ELSE Return([dl EXCEPT !.downloaded = downloaded], "end",
                              Ok(downloaded))
    /\ gf' = IdleGf
    /\ UNCHANGED <<target, files, dirs, fs0, gets, np, tasks, scripts, login>>

(***************************************************************************)
(* download_library called on the libraries below                          *)
(***************************************************************************)
Rule(action, os) == [action |-> action, os |-> os]
RuleOs(name) == Some([name |-> name, version |-> None])

RuleSet ==
    {Rule(a, o) : a \in {"Allow", "Disallow"},
                  o \in {None, RuleOs("linux"), RuleOs("osx"),
                         RuleOs("linux-arm64")}}

RuleLists == UNION {[1..k -> RuleSet] : k \in 0..MaxRules}

GoodName == <<"g", ".", "h", ":", "a", ":", "1">>
BadName == <<"g", ".", "h", ":", "a">>
\* a coordinate whose group begins with '.'
DotName == <<".", "g", ":", "a", ":", "1">>
BasePath == <<"b">>

Download(sha1, url) == [sha1 |-> sha1, size |-> 0, url |-> url]
\* the primary artifact, whose body is <<97>>, and the native one, <<97, 98, 99>>
PrimaryArtifact ==
    Download(<<"8", "6", "f", "7">>, <<"h", ":", "/", "/", "s", "/", "p">>)
NativeArtifact ==
    Download(<<"a", "9", "9", "9">>, <<"h", ":", "/", "/", "s", "/", "n">>)

Library(name, url, natives, rules, downloads, hint) ==
    [name |-> name, url |-> url, natives |-> natives, rules |-> rules,
     downloads |-> downloads, hint |-> hint]

\* every rule list, on a library fetched from the default url
RuleLibraries ==
    {Library(GoodName, None, None, Some(rs), None, None) : rs \in RuleLists}

NativesMaps ==
    {None,
     Some([k \in {"linux"} |-> <<"n">>]),
     Some([k \in {"linux"} |-> <<"m">>]),
     Some([k \in {"osx"} |-> <<"n">>])}

DownloadsSet ==
    {[artifact |-> a, classifiers |-> c] :
        a \in {None, Some(PrimaryArtifact)},
        c \in {None, Some([k \in {<<"n">>} |-> NativeArtifact])}}

UrlOverrides ==
    {None, Some(<<"h", ":", "/", "/", "s", "/">>),
     Some(<<"h", ":", "/", "/", "s", "/", "x">>)}
Hints == {None, Some("AlwaysStale")}

\* explicit downloads, and derived urls, under the rule lists that matter
\* to them: none, empty, one unscoped rule
ExplicitLibraries ==
    {Library(n, uh[1], nat, rs, Some(d), uh[2]) :
        n \in {GoodName, BadName},
        uh \in {<<None, None>>, <<Some(<<"h", ":", "/", "/", "s", "/">>), Some("AlwaysStale")>>},
        nat \in NativesMaps,
        rs \in {None, Some(<<>>), Some(<<Rule("Disallow", None)>>)},
        d \in DownloadsSet}

DerivedLibraries ==
    {Library(n, u, None, rs, None, h) :
        n \in {GoodName, BadName, DotName}, u \in UrlOverrides,
        rs \in {None, Some(<<>>)}, h \in Hints}

Targets ==
    {[os |-> "linux", arch |-> "x86_64"], [os |-> "macos", arch |-> "x86"],
     [os |-> "linux", arch |-> "aarch64"]}

\* the classifiers the library's natives map names
NativeClassifiers(library) ==
    IF IsSome(library.natives)
    THEN {Some(Unwrap(library.natives)[k]) : k \in DOMAIN Unwrap(library.natives)}
    ELSE {}

\* the paths the library's fetches can name
TargetPaths(library) ==
    {PathPush(BasePath, Unwrap(r)) :
        r \in {o \in {NameToPath(library.name, c) :
                         c \in {None} \cup NativeClassifiers(library)} :
                  IsSome(o)}}

\* the calls studied: every rule list on each target, the other libraries
\* on one
LibraryCalls ==
    (RuleLibraries \X Targets)
        \cup ((ExplicitLibraries \cup DerivedLibraries)
                 \X {[os |-> "linux", arch |-> "x86_64"]})

InitLib ==
    /\ gets = <<>>
    /\ gf = IdleGf
    /\ np = IdleNp
    /\ tasks = <<>> /\ scripts = <<>> /\ login = IdleLogin
    /\ \E call \in LibraryCalls :
         /\ dl = DownloadLibraryCall(BasePath, call[1])
         /\ target = call[2]
         /\ fs0 \in InitialFs(TargetPaths(call[1]))
    /\ files = fs0.files
    /\ dirs = fs0.dirs

NextLib ==
    \/ LibRules \/ LibMatch \/ LibPrimary \/ LibNatives \/ LibDerived \/ LibFetched
    \/ GetFileStep

SpecLib == InitLib /\ [][NextLib]_vars

(***************************************************************************)
(* download_library on every kind of build target                          *)
(***************************************************************************)
\* std::env::consts::OS and ARCH: the values the code names and one other
AllTargets ==
    [os : {"linux", "macos", "windows", "freebsd"},
     arch : {"x86", "x86_64", "aarch64", "arm", "riscv64"}]

\* the strings a rule's os.name or a key of the natives map may hold:
\* platform identifiers, and strings that are close to one
ScopeNames ==
    {"linux", "osx", "windows", "unknown", "linux-arm64", "osx-arm64",
     "windows-arm32", "linux-unknown", "unknown-unknown", "linux-x86_64",
     "macos", "linux-"}

\* one rule scoped to a name, on a library fetched from the default url;
\* one natives entry keyed by a name, on a library that has only natives
ScopedLibraries ==
    {Library(GoodName, None, None, Some(<<Rule("Allow", RuleOs(n))>>), None, None) :
        n \in ScopeNames}
KeyedLibraries ==
    {Library(GoodName, None, Some([k \in {n} |-> <<"n">>]), None,
             Some([artifact |-> None,
                   classifiers |-> Some([k \in {<<"n">>} |-> NativeArtifact])]),
             None) :
        n \in ScopeNames}

InitPlatform ==
    /\ gets = <<>>
    /\ gf = IdleGf
    /\ np = IdleNp
    /\ tasks = <<>> /\ scripts = <<>> /\ login = IdleLogin
    /\ target \in AllTargets
    /\ \E library \in ScopedLibraries \cup KeyedLibraries :
         /\ dl = DownloadLibraryCall(BasePath, library)
         /\ fs0 \in InitialFs(TargetPaths(library))
    /\ files = fs0.files
    /\ dirs = fs0.dirs

SpecPlatform == InitPlatform /\ [][NextLib]_vars

(***************************************************************************)
(* main.rs: login_msa_inner                                                *)
(***************************************************************************)
\* DeviceCodeResponse.interval, in seconds
Intervals == {1, 5}

\* what the token endpoint's answer deserializes to (lines 96-99): the `?`
\* errors, TokenResponse::Ok and the four TokenResponseErrorKind; an error
\* code outside the enum, such as slow_down, does not deserialize
TokenResponses ==
    {"transport_error", "slow_down", "token", "authorization_pending",
     "authorization_declined", "bad_verification_code", "expired_token"}

\* emit_all reaches every window, fails before any, or fails after some
EmitOutcomes == {"ok", "failed", "partial"}

LoginCall ==
    [pc |-> "device_code", interval |-> 0, polls |-> 0, sleeps |-> 0,
     slept |-> 0, last |-> "none",
     answers |-> [step \in {"xbl", "xsts", "launcher"} |-> "none"],
     events |-> <<>>, exit |-> "running", err |-> ""]

\* the frame once the request of a step has been answered by o
Received(frame, step, o) == [frame EXCEPT !.answers[step] = o]

\* return Err(..), by `?` or by return
Fail(frame, err) == [frame EXCEPT !.pc = "done", !.exit = "error", !.err = err]

\* app_handle.emit_all(event, ..)?, then on to next
Emit(frame, event, outcome, next) ==
    CASE outcome = "ok" ->
           [frame EXCEPT !.events = Append(@, event), !.pc = next]
      [] outcome = "partial" ->
           Fail([frame EXCEPT !.events = Append(@, event)], "emit")
      [] OTHER -> Fail(frame, "emit")

\* lines 48-72: the device-code request and the login message
LoginDeviceCode ==
    /\ login.pc = "device_code"
    /\ \E o \in {"client", "transport_error", "status", "bad_json", "ok"},
          i \in Intervals, e \in EmitOutcomes :
         login' = IF o # "ok" THEN Fail(login, o)
                  ELSE Emit([login EXCEPT !.interval = i],
                            "auth:msa:login_message", e, "sleep")
    /\ UNCHANGED <<target, files, dirs, fs0, gets, gf, dl, np, tasks, scripts>>

\* lines 73 and 113: sleep(Duration::from_secs(flow_resp.interval))
LoginSleep ==
    /\ login.pc = "sleep"
    /\ login' = [login EXCEPT !.pc = "poll", !.sleeps = @ + 1,
                              !.slept = login.interval]
    /\ UNCHANGED <<target, files, dirs, fs0, gets, gf, dl, np, tasks, scripts>>

\* lines 101-125: where the loop goes on the answer
AfterTokenSkipsEmit(r) ==
    CASE r = "token" -> "xbl"
      [] r = "authorization_pending" -> "sleep"
      [] OTHER -> "done"

AfterTokenDeclinedRetried(r) ==
    CASE r = "token" -> "msa_token"
      [] r \in {"authorization_pending", "authorization_declined"} -> "sleep"
      [] OTHER -> "done"

AfterToken(r) ==
    CASE r = "token" -> "msa_token"
      [] r = "authorization_pending" -> "sleep"
      [] OTHER -> "done"

\* lines 75-125: one request to the token endpoint and the match on it
LoginPoll ==
    /\ login.pc = "poll"
    /\ login.polls < MaxPolls
    /\ \E r \in TokenResponses :
         LET polled == [login EXCEPT !.polls = @ + 1, !.last = r] IN
         login' = IF AfterToken(r) = "done" THEN Fail(polled, r)
                  ELSE [polled EXCEPT !.pc = AfterToken(r)]
    /\ UNCHANGED <<target, files, dirs, fs0, gets, gf, dl, np, tasks, scripts>>

\* line 128
LoginMsaToken ==
    /\ login.pc = "msa_token"
    /\ \E e \in EmitOutcomes :
         login' = Emit(login, "auth:msa:msa_token", e, "xbl")
    /\ UNCHANGED <<target, files, dirs, fs0, gets, gf, dl, np, tasks, scripts>>

\* lines 130-174: the XBL request; display_claims.xui[0] panics on an
\* empty list
LoginXbl ==
    /\ login.pc = "xbl"
    /\ \E o \in {"transport_error", "bad_json", "x_err", "no_xui", "ok"},
          e \in EmitOutcomes :
         login' = CASE o = "ok" ->
                         Emit(Received(login, "xbl", o), "auth:msa:xbl_token", e, "xsts")
                    [] o = "no_xui" ->
                         [Received(login, "xbl", o) EXCEPT !.pc = "done",
                                                           !.exit = "panic"]
                    [] OTHER -> Fail(Received(login, "xbl", o), o)
    /\ UNCHANGED <<target, files, dirs, fs0, gets, gf, dl, np, tasks, scripts>>

\* the match of lines 196-206, which follows the emit of line 194
AfterXsts(frame, o) ==
    IF frame.pc = "done" \/ o = "ok" THEN frame ELSE Fail(frame, o)

\* lines 176-206: the XSTS request
LoginXsts ==
    /\ login.pc = "xsts"
    /\ \E o \in {"transport_error", "bad_json", "x_err", "ok"},
          e \in EmitOutcomes :
         login' = IF o \in {"transport_error", "bad_json"}
                  THEN Fail(Received(login, "xsts", o), o)
                  ELSE AfterXsts(Emit(Received(login, "xsts", o),
                                      "auth:msa:xsts_token", e, "launcher"), o)
    /\ UNCHANGED <<target, files, dirs, fs0, gets, gf, dl, np, tasks, scripts>>

\* line 222, which follows the emit of line 220
AfterLauncher(frame, o) ==
    IF frame.pc = "done" \/ o = "ok" THEN frame ELSE Fail(frame, o)

\* lines 208-224: the launcher login
LoginLauncher ==
    /\ login.pc = "launcher"
    /\ \E o \in {"transport_error", "bad_json", "ok"}, e \in EmitOutcomes :
         login' = IF o = "transport_error"
                  THEN Fail(Received(login, "launcher", o), o)
                  ELSE AfterLauncher(Emit(Received(login, "launcher", o),
                                          "auth:msa:mc_token", e, "entitlement"), o)
    /\ UNCHANGED <<target, files, dirs, fs0, gets, gf, dl, np, tasks, scripts>>

\* lines 226-242: the entitlement request, whose answer is only logged
LoginEntitlement ==
    /\ login.pc = "entitlement"
    /\ \E o \in {"header", "transport_error", "ok"} :
         login' = IF o = "ok" THEN [login EXCEPT !.pc = "done", !.exit = "ok"]
                  ELSE Fail(login, o)
    /\ UNCHANGED <<target, files, dirs, fs0, gets, gf, dl, np, tasks, scripts>>

InitLogin ==
    /\ target = [os |-> "linux", arch |-> "x86_64"]
    /\ files = <<>> /\ dirs = {} /\ fs0 = [files |-> <<>>, dirs |-> {}]
    /\ gets = <<>>
    /\ gf = IdleGf /\ dl = IdleDl /\ np = IdleNp
    /\ tasks = <<>> /\ scripts = <<>>
    /\ login = LoginCall

NextLogin ==
    \/ LoginDeviceCode \/ LoginSleep \/ LoginPoll \/ LoginMsaToken
    \/ LoginXbl \/ LoginXsts \/ LoginLauncher \/ LoginEntitlement

SpecLogin == InitLogin /\ [][NextLogin]_vars

\* lines 38-45: login_msa, Some(message) on Err and None on Ok
LoginMsa(frame) ==
    IF frame.exit = "error" THEN Some(frame.err) ELSE None

\* the runtime resumes the login whenever the step it awaits can be taken
SpecLoginFair == SpecLogin /\ WF_vars(NextLogin)

(***************************************************************************)
(* Claims about get_file called on its own (Spec)                          *)
(***************************************************************************)
FsUnchanged == files = fs0.files /\ dirs = fs0.dirs

\* the expected digest is well-formed hex
WellFormed(sha1) == IsSome(sha1) /\ IsSome(HexDecode(Unwrap(sha1)))

\* the call found a file at its path whose digest equals / differs from the
\* well-formed expected one
FileMatches ==
    /\ gf.path \in DOMAIN fs0.files
    /\ WellFormed(gf.sha1)
    /\ Unwrap(HexDecode(Unwrap(gf.sha1))) = Sha1Digest(fs0.files[gf.path])
FileDiffers ==
    /\ gf.path \in DOMAIN fs0.files
    /\ WellFormed(gf.sha1)
    /\ Unwrap(HexDecode(Unwrap(gf.sha1))) # Sha1Digest(fs0.files[gf.path])

\* the expected sha1 is the digest of some content the server can send
ExpectedIsDigest ==
    \E b \in Bodies : Unwrap(HexDecode(Unwrap(gf.sha1))) = Sha1Digest(b)

GotResponse == IsSome(gf.resp)
Status == Unwrap(gf.resp).status
Body == Unwrap(gf.resp).data

\* C1: with redownload = false and a file whose SHA-1 equals the well-formed
\* expected sha1, no GET is issued, the file's bytes are returned and the
\* filesystem is as it was.
C1_CacheHit ==
    (gf.pc # "idle" /\ ~gf.redownload /\ FileMatches)
        => /\ gets = <<>>
           /\ FsUnchanged
           /\ gf.pc \in {"read", "done"}
           /\ gf.pc = "done" => gf.result = Ok(fs0.files[gf.path])

C1_Witness ==
    /\ gf.pc = "done" /\ ~gf.redownload /\ FileMatches
    /\ gf.sha1 = Some(<<"D", "A", "3", "9">>)
    /\ gf.result = Ok(<<>>)

\* C2: with redownload = false and a file whose SHA-1 differs from the
\* expected sha1, a GET is issued and, on status 200, the file is
\* overwritten with the body, the body is returned and the file's new
\* SHA-1 equals the expected sha1.  (Stated for calls whose request could
\* be built and whose write succeeded.)
C2_MismatchRefetch ==
    (gf.pc = "done" /\ ~gf.redownload /\ FileDiffers /\ ExpectedIsDigest
        /\ gf.client = "built" /\ UrlParses(gf.url))
        => /\ gets = <<gf.url>>
           /\ (GotResponse /\ Status = 200 /\ gf.result.ok)
                => /\ files[gf.path] = Body
                   /\ gf.result = Ok(Body)
                   /\ Sha1Digest(files[gf.path]) = Unwrap(HexDecode(Unwrap(gf.sha1)))

\* C3: a response whose status is not 200 ends the call with an error and
\* leaves the filesystem as it was: files keep their content, no file and
\* no directory is created.
C3_Non200Intact ==
    (GotResponse /\ Status # 200)
        => /\ gf.pc = "done"
           /\ ~gf.result.ok
           /\ FsUnchanged

C3_Witness ==
    /\ gf.pc = "done" /\ GotResponse /\ Status = 404
    /\ gf.path = <<"c", "/", "f">>
    /\ gf.path \in DOMAIN files
    /\ ~gf.result.ok

\* a cache miss: the file is unreadable, or redownload is set, or the
\* file's digest differs from the expected sha1
CacheMiss ==
    \/ gf.path \notin DOMAIN fs0.files
    \/ gf.redownload
    \/ FileDiffers

\* C9 as claimed: on a cache miss exactly one GET to url is issued during
\* the call, and a non-200 response ends it with an error.
C9_ExactlyOneGet ==
    (gf.pc = "done" /\ CacheMiss)
        => /\ gets = <<gf.url>>
           /\ (GotResponse /\ Status # 200) => ~gf.result.ok

\* C9 as amended: on a cache miss at most one GET is issued, exactly one
\* (to url) once the client is built and the request for url is
\* constructed, none otherwise; a non-200 response ends the call with an
\* error and is not retried.
RequestBuilt == gf.client = "built" /\ UrlParses(gf.url)

C9_AtMostOneGet ==
    (gf.pc # "idle" /\ CacheMiss)
        => /\ Len(gets) <= 1
           /\ gf.pc = "done"
                => /\ RequestBuilt => gets = <<gf.url>>
                   /\ ~RequestBuilt => gets = <<>>
                   /\ (GotResponse /\ Status # 200) => ~gf.result.ok
           /\ (GotResponse /\ Status # 200) => gf.pc = "done"

C9_Witness ==
    /\ gf.pc = "done" /\ gf.redownload /\ FileMatches
    /\ gets = <<gf.url>>
    /\ GotResponse /\ Status = 500
    /\ ~gf.result.ok

\* C10: a call whose expected sha1 is present and is not valid hex returns
\* an error, whether or not the file exists and whatever redownload is.
C10_MalformedHashFatal ==
    (gf.pc = "done" /\ IsSome(gf.sha1) /\ ~WellFormed(gf.sha1))
        => ~gf.result.ok

(***************************************************************************)
(* Claims about concurrent get_file calls (SpecConc)                       *)
(***************************************************************************)
\* call a run to its return from the initial filesystem, then call b
Sequential(a, b) ==
    LET first  == RunCall(Stepped(GetFileCall(tasks[a].path, tasks[a].url,
                                              tasks[a].redownload, tasks[a].sha1),
                                  fs0.files, fs0.dirs, FALSE), scripts[a])
        second == RunCall(Stepped(GetFileCall(tasks[b].path, tasks[b].url,
                                              tasks[b].redownload, tasks[b].sha1),
                                  first.files, first.dirs, FALSE), scripts[b])
    IN  [results |-> [t \in {a, b} |-> IF t = a THEN first.gf.result
                                       ELSE second.gf.result],
         files |-> second.files, dirs |-> second.dirs]

\* where the interleaved run has ended
Interleaved ==
    [results |-> [t \in {1, 2} |-> tasks[t].result],
     files |-> files, dirs |-> dirs]

BothReturned == tasks # <<>> /\ \A t \in 1..2 : tasks[t].pc = "done"

\* p lies under q: q is one of the directories that lead to p
Under(p, q) == IsSome(Parent(p)) /\ q \in Ancestors(Unwrap(Parent(p)))

\* C16 as stated: two get_file calls on distinct paths, their steps
\* interleaved in any way, return what they return, and leave the
\* filesystem as they leave it, when run one after the other in either
\* order.
C16_IndependentFetches ==
    (BothReturned /\ tasks[1].path # tasks[2].path)
        => Interleaved = Sequential(1, 2) /\ Interleaved = Sequential(2, 1)

\* C16 amended: the same for two calls on distinct paths neither of which
\* lies under the other.
C16_IndependentUnnested ==
    (BothReturned /\ tasks[1].path # tasks[2].path
        /\ ~Under(tasks[1].path, tasks[2].path)
        /\ ~Under(tasks[2].path, tasks[1].path))
        => Interleaved = Sequential(1, 2) /\ Interleaved = Sequential(2, 1)

\* both calls have downloaded and written, into a directory neither found
C16_Witness ==
    /\ BothReturned
    /\ ~Under(tasks[1].path, tasks[2].path)
    /\ fs0.dirs = {}
    /\ \A t \in 1..2 : tasks[t].result = Ok(<<97>>)
    /\ Len(gets) = 2

(***************************************************************************)
(* Claims about download_library (SpecLib)                                 *)
(***************************************************************************)
RulesDone == dl.pc \notin {"idle", "rules"}

\* a rule applies on a platform when it has no os or its os.name is the
\* platform identifier
Applies(rule, platform) ==
    ~IsSome(rule.os) \/ Unwrap(rule.os).name = platform

\* last match wins: the action of the last rule that applies, and not
\* needed when none does
LastMatchAllows(rules, platform) ==
    LET applying == {i \in 1..Len(rules) : Applies(rules[i], platform)} IN
    /\ applying # {}
    /\ rules[CHOOSE i \in applying : \A j \in applying : j <= i].action = "Allow"

\* C4: for a present rule list the need decision is the ordered fold in
\* which each applying rule overwrites the decision, i.e. the last applying
\* rule decides and no applying rule means not needed; [Allow unscoped,
\* Disallow scoped to P] is not needed on P and needed elsewhere.
C4_LastMatchWins ==
    (RulesDone /\ IsSome(dl.library.rules))
        => /\ dl.allowed = LastMatchAllows(Unwrap(dl.library.rules), OsArch(target))
           /\ (dl.exit = "not_needed") <=> ~dl.allowed
           /\ \A P \in {"linux", "osx", "linux-arm64"} :
                Unwrap(dl.library.rules) = <<Rule("Allow", None), Rule("Disallow", RuleOs(P))>>
                    => (dl.allowed <=> OsArch(target) # P)

C4_Witness ==
    /\ dl.pc = "done"
    /\ dl.library.rules = Some(<<Rule("Allow", None), Rule("Disallow", RuleOs("osx"))>>)
    /\ target = [os |-> "macos", arch |-> "x86"]
    /\ ~dl.allowed
    /\ dl.exit = "not_needed"

\* C5: a library whose rule list is absent or empty is needed:
\* download_library does not return the empty 'not needed' result for it.
C5_EmptyOrAbsentNeeded ==
    (RulesDone /\ (dl.library.rules = None \/ dl.library.rules = Some(<<>>)))
        => dl.exit # "not_needed"

\* C6: a library that passes the rules and whose name does not parse as a
\* coordinate ends in an error, whichever strategy applies.
C6_ParseFailureFatal ==
    (dl.pc = "done" /\ dl.exit # "not_needed"
        /\ ~IsSome(NameToPath(dl.library.name, None)))
        => ~dl.result.ok

\* the native cross-reference failed (lines 289-292)
CrossReferenceFailed ==
    /\ dl.pc = "done"
    /\ dl.result.err \in {"Can't get classifiers", "Can't get native"}

\* C8: download_library returns all the paths of artifacts it materialised,
\* or an error having materialised none; when the native cross-reference
\* fails the primary artifact has been neither fetched nor written.
C8_NoPartialResult ==
    /\ (dl.pc = "done" /\ dl.result.ok)
            => \A i \in 1..Len(dl.result.val) : dl.result.val[i] \in DOMAIN files
    /\ CrossReferenceFailed => (gets = <<>> /\ FsUnchanged)

\* the artifacts the explicit downloads of a library hold
Artifacts(downloads) ==
    (IF IsSome(downloads.artifact) THEN {Unwrap(downloads.artifact)} ELSE {})
        \cup (IF IsSome(downloads.classifiers)
              THEN {Unwrap(downloads.classifiers)[k] :
                       k \in DOMAIN Unwrap(downloads.classifiers)}
              ELSE {})

\* every get_file call made so far is for an artifact of the explicit
\* downloads: its own url and sha1, and no forced download
FetchesAreExplicit ==
    \A i \in 1..Len(dl.fetches) :
        \E a \in Artifacts(Unwrap(dl.library.downloads)) :
            /\ dl.fetches[i].url = a.url
            /\ dl.fetches[i].sha1 = Some(a.sha1)
            /\ ~dl.fetches[i].redownload

\* the one get_file call carries no expected sha1 and is forced exactly
\* when the hint is AlwaysStale
OneDerivedFetch ==
    /\ Len(dl.fetches) = 1
    /\ dl.fetches[1].sha1 = None
    /\ dl.fetches[1].redownload = (dl.library.hint = Some("AlwaysStale"))

\* the call has returned, and not at line 273
ReturnedNeeded == dl.pc = "done" /\ dl.exit # "not_needed"

\* C11 as stated: with explicit downloads every fetch uses the artifact's
\* own url, redownload = false and the artifact's sha1, whatever the
\* library's url and hint are; with downloads absent a needed library gets
\* exactly one fetch, with no expected sha1 and redownload equal to
\* (hint == AlwaysStale).
C11_StrategyExclusive ==
    /\ (dl.pc # "idle" /\ IsSome(dl.library.downloads)) => FetchesAreExplicit
    /\ (ReturnedNeeded /\ ~IsSome(dl.library.downloads)) => OneDerivedFetch

\* C11 amended: with explicit downloads as above; with downloads absent a
\* needed library whose name parses gets exactly one fetch, with no
\* expected sha1 and redownload = (hint == AlwaysStale), and one whose name
\* does not parse gets no fetch and an error.
C11_StrategyExclusiveWhenParsed ==
    /\ (dl.pc # "idle" /\ IsSome(dl.library.downloads)) => FetchesAreExplicit
    /\ (ReturnedNeeded /\ ~IsSome(dl.library.downloads))
            => IF IsSome(NameToPath(dl.library.name, None))
               THEN OneDerivedFetch
               ELSE dl.fetches = <<>> /\ ~dl.result.ok

\* an explicit library with a url override and the AlwaysStale hint has
\* fetched both its artifacts
C11_Witness ==
    /\ ReturnedNeeded /\ dl.result.ok
    /\ IsSome(dl.library.downloads)
    /\ IsSome(dl.library.url) /\ dl.library.hint = Some("AlwaysStale")
    /\ Len(dl.fetches) = 2

\* the natives map has an entry for the current platform identifier
NativeEntry ==
    /\ IsSome(dl.library.natives)
    /\ OsArch(target) \in DOMAIN Unwrap(dl.library.natives)

\* the classifier that entry names
Native == Unwrap(dl.library.natives)[OsArch(target)]

\* the classifier is in the table of downloads.classifiers
InTable ==
    /\ IsSome(Unwrap(dl.library.downloads).classifiers)
    /\ Native \in DOMAIN Unwrap(Unwrap(dl.library.downloads).classifiers)

\* the step fetches the classifier's artifact to the path derived with the
\* classifier as override, after the primary artifact if there is one
FetchesNative ==
    LET rel      == NameToPath(dl.library.name, Some(Native))
        artifact == Unwrap(Unwrap(dl.library.downloads).classifiers)[Native]
        primary  == IF IsSome(Unwrap(dl.library.downloads).artifact) THEN 1 ELSE 0
    IN  /\ IsSome(rel)
        /\ dl'.pc = "await_native"
        /\ gf' = GetFileCall(PathPush(dl.base_path, Unwrap(rel)), artifact.url,
                             FALSE, Some(artifact.sha1))
        /\ Len(dl.fetches) = primary /\ Len(dl.downloaded) = primary
        /\ Len(dl'.fetches) = primary + 1
        /\ dl'.fetches[primary + 1].path = gf'.path
        /\ dl'.fetches[primary + 1].url = artifact.url

\* the step ends the call with an error and starts no fetch
FailsUnfetched ==
    /\ dl'.pc = "done" /\ ~dl'.result.ok
    /\ dl'.fetches = dl.fetches /\ gf' = gf

\* the step ends the call well with what was downloaded before it
EndsWithoutNative ==
    /\ dl'.pc = "done" /\ dl'.result = Ok(dl.downloaded)
    /\ dl'.fetches = dl.fetches /\ gf' = gf

\* C12 as stated: where download_library comes to the natives (after the
\* primary artifact, if any), an entry of the natives map for the platform
\* identifier whose classifier is not in downloads.classifiers is an error,
\* an entry whose classifier is in the table makes it fetch that artifact
\* to the path derived with the classifier as override, and without such
\* an entry nothing is fetched and no error is raised.
C12_NativeResolution ==
    [][dl.pc = "natives"
         => IF NativeEntry
            THEN IF InTable THEN FetchesNative ELSE FailsUnfetched
            ELSE EndsWithoutNative]_vars

\* C12 amended: as above, and the fetch is made when the name parses as a
\* coordinate; when it does not, the entry whose classifier is in the table
\* ends in an error without a fetch.
C12_NativeResolutionWhenParsed ==
    [][dl.pc = "natives"
         => IF NativeEntry
            THEN IF ~InTable THEN FailsUnfetched
                 ELSE IF IsSome(NameToPath(dl.library.name, Some(Native)))
                 THEN FetchesNative
                 ELSE FailsUnfetched
            ELSE EndsWithoutNative]_vars

\* the native artifact is being fetched after the primary one, to the path
\* that carries the classifier
C12_Witness ==
    /\ dl.pc = "await_native"
    /\ Len(dl.fetches) = 2
    /\ dl.fetches[1].path # dl.fetches[2].path
    /\ dl.fetches[2].url = NativeArtifact.url

\* the base url of a library without explicit downloads
DerivedBase ==
    IF dl.library.url # None THEN dl.library.url[1] ELSE LIBRARY_BASE_URL

\* the one fetch made is for the url the base gives with the relative path
\* rel, and targets base_path joined with rel
DerivedFetchIs(rel) ==
    /\ Len(dl.fetches) = 1
    /\ dl.fetches[1].url = IF DerivedBase[Len(DerivedBase)] = "/"
                           THEN DerivedBase \o rel
                           ELSE DerivedBase
    /\ dl.fetches[1].path = PathPush(dl.base_path, rel)
    /\ \A i \in 1..Len(gets) : gets[i] = dl.fetches[1].url

\* C13 as stated: a needed library without explicit downloads gets exactly
\* one fetch; its url is the base (the url override, else the default
\* root) followed by the coordinate's relative path when the base ends with
\* '/', and the base verbatim otherwise; its target is base_path joined
\* with the relative path derived without classifier override.
C13_DerivedUrl ==
    (ReturnedNeeded /\ ~IsSome(dl.library.downloads))
        => LET rel == NameToPath(dl.library.name, None) IN
           IsSome(rel) /\ DerivedFetchIs(Unwrap(rel))

\* C13 amended: as above when the name parses as a coordinate; when it
\* does not, no fetch is made and the call fails, whatever the base is.
C13_DerivedUrlWhenParsed ==
    (ReturnedNeeded /\ ~IsSome(dl.library.downloads))
        => LET rel == NameToPath(dl.library.name, None) IN
           IF IsSome(rel) THEN DerivedFetchIs(Unwrap(rel))
           ELSE dl.fetches = <<>> /\ gets = <<>> /\ ~dl.result.ok

\* an override without a trailing '/' was requested verbatim, and the
\* default root with the relative path appended
C13_Witness ==
    /\ ReturnedNeeded /\ dl.result.ok
    /\ ~IsSome(dl.library.downloads)
    /\ \/ /\ dl.library.url = Some(<<"h", ":", "/", "/", "s", "/", "x">>)
          /\ gets = <<Unwrap(dl.library.url)>>
       \/ /\ dl.library.url = None
          /\ gets = <<LIBRARY_BASE_URL \o Unwrap(NameToPath(dl.library.name, None))>>

\* C14: whenever the rules are present and their evaluation yields not
\* needed, download_library returns Ok with an empty path list, having
\* issued no GET, called get_file not once (so read and written no file)
\* and left the filesystem as it was, whatever the library's name,
\* downloads and natives are.
C14_ExclusionIsCleanSuccess ==
    (RulesDone /\ IsSome(dl.library.rules)
        /\ ~LastMatchAllows(Unwrap(dl.library.rules), OsArch(target)))
        => /\ dl.pc = "done"
           /\ dl.result = Ok(<<>>)
           /\ dl.fetches = <<>> /\ gf = IdleGf
           /\ gets = <<>>
           /\ FsUnchanged

\* an excluded library whose name does not parse and whose natives entry
\* names a classifier that downloads.classifiers lacks
C14_Witness ==
    /\ dl.pc = "done" /\ dl.exit = "not_needed"
    /\ Len(Unwrap(dl.library.rules)) > 0
    /\ ~IsSome(NameToPath(dl.library.name, None))
    /\ NativeEntry /\ ~InTable

\* the platform identifier of each target, written out: the OS tag alone
\* on x86 and x86_64, the OS tag, '-' and the architecture tag elsewhere
OsTag ==
    [os \in {"linux", "macos", "windows", "freebsd"} |->
        CASE os = "linux" -> "linux" [] os = "macos" -> "osx"
          [] os = "windows" -> "windows" [] OTHER -> "unknown"]
PlatformId ==
    [t \in AllTargets |->
        CASE t.arch \in {"x86", "x86_64"} -> OsTag[t.os]
          [] t.arch = "aarch64" -> OsTag[t.os] \o "-arm64"
          [] t.arch = "arm"     -> OsTag[t.os] \o "-arm32"
          [] OTHER              -> OsTag[t.os] \o "-unknown"]

\* the name the library's one rule is scoped to, or its natives map keyed by
ScopeName ==
    IF IsSome(dl.library.rules) THEN Unwrap(Unwrap(dl.library.rules)[1].os).name
    ELSE CHOOSE k \in DOMAIN Unwrap(dl.library.natives) : TRUE

\* C17: os_arch returns the normalized OS tag alone when the normalized
\* architecture is x86 or x86_64 and os-arch otherwise ('unknown'
\* included); a scoped rule applies, and a natives entry is used, exactly
\* when its name equals that string.
C17_PlatformIdentifier ==
    /\ OsArch(target) = PlatformId[target]
    /\ (RulesDone /\ IsSome(dl.library.rules))
            => (dl.allowed <=> ScopeName = PlatformId[target])
    /\ (dl.pc = "done" /\ IsSome(dl.library.natives))
            => (dl.fetches # <<>> <=> ScopeName = PlatformId[target])

\* on an architecture the code does not name, the entry keyed
\* linux-unknown is the one fetched
C17_Witness ==
    /\ dl.pc = "done"
    /\ target = [os |-> "linux", arch |-> "riscv64"]
    /\ IsSome(dl.library.natives)
    /\ ScopeName = "linux-unknown"
    /\ Len(dl.fetches) = 1

\* path is a path below the directory base
IsUnder(path, base) ==
    /\ Len(path) > Len(base) + 1
    /\ SubSeq(path, 1, Len(base) + 1) = base \o <<"/">>

\* a successful get_file leaves at its path exactly the bytes it returns
ReturnedBytesAreCached ==
    (gf.pc = "done" /\ gf.result.ok)
        => /\ gf.path \in DOMAIN files
           /\ files[gf.path] = gf.result.val

\* every path a successful download_library returns is a file below
\* base_path
ReturnedPathsAreCached ==
    (dl.pc = "done" /\ dl.result.ok)
        => \A i \in 1..Len(dl.result.val) :
              /\ dl.result.val[i] \in DOMAIN files
              /\ IsUnder(dl.result.val[i], dl.base_path)

\* C19: on every successful return of get_file, cache hit or fetch, the
\* file at path exists and holds exactly the bytes returned; and every
\* path returned by a successful download_library names an existing file
\* under base_path.
C19_ReturnedIsCached == ReturnedBytesAreCached /\ ReturnedPathsAreCached

(***************************************************************************)
(* Claims about login_msa_inner (SpecLoginFair)                            *)
(***************************************************************************)
Polling == login.pc \in {"sleep", "poll"}

\* every poll made so far was preceded by its own sleep of the interval
\* the server gave, and a poll about to be made has had its sleep
SleptBeforeEachPoll ==
    /\ login.pc = "poll" => (login.sleeps = login.polls + 1
                              /\ login.slept = login.interval)
    /\ login.pc # "poll" => login.sleeps = login.polls
    /\ login.polls > 0 => login.slept = login.interval

\* after a poll, the login is still polling exactly when the answer was
\* authorization_pending
PollsWhilePending ==
    login.polls > 0 => (Polling <=> login.last = "authorization_pending")

\* a poll is made from the poll position only; authorization_pending
\* takes it to the next sleep, a token to the emit of auth:msa:msa_token,
\* anything else to the end of the login, with an error
PollOutcome ==
    login'.polls = login.polls + 1
        => /\ login.pc = "poll"
           /\ CASE login'.last = "authorization_pending" -> login'.pc = "sleep"
                [] login'.last = "token" ->
                     login'.pc = "msa_token" /\ login'.exit = "running"
                [] OTHER -> login'.pc = "done" /\ login'.exit = "error"

\* a refusal ends the login with an error and without the msa_token event
RefusalEndsLogin ==
    login.last \in {"authorization_declined", "bad_verification_code",
                    "expired_token"}
        => /\ login.pc = "done" /\ login.exit = "error"
           /\ \A i \in 1..Len(login.events) :
                 login.events[i] # "auth:msa:msa_token"

Answered == login.polls > 0 /\ login.last # "authorization_pending"
Terminated == login.pc = "done"

\* C20: after the device-code request the login sleeps the server-given
\* interval before every poll; it goes on polling exactly while the answer
\* is authorization_pending; a token ends the polling and takes the flow
\* on, while authorization_declined, bad_verification_code and
\* expired_token end the login with an error and without
\* auth:msa:msa_token; and once the endpoint has answered anything but
\* authorization_pending the login terminates.
C20_DeviceCodePolling ==
    /\ [](SleptBeforeEachPoll /\ PollsWhilePending /\ RefusalEndsLogin)
    /\ [][PollOutcome]_vars
    /\ (Answered ~> Terminated)

\* the endpoint answered authorization_pending, then gave the token, and
\* the login ran to its end
C20_Witness ==
    /\ login.polls = 2 /\ login.sleeps = 2
    /\ login.last = "token"
    /\ login.exit = "ok"

\* the progress events, in the order of the login's steps
EventOrder ==
    <<"auth:msa:login_message", "auth:msa:msa_token", "auth:msa:xbl_token",
      "auth:msa:xsts_token", "auth:msa:mc_token">>

\* C21: in every run of login_msa_inner each of the five progress events
\* is emitted at most once, in the order login_message, msa_token,
\* xbl_token, xsts_token, mc_token, and never before all the earlier ones:
\* at every moment the events emitted so far are the first few of that
\* sequence, and a step only ever adds the next one.
C21_EventsOrdered ==
    /\ [](/\ Len(login.events) <= Len(EventOrder)
          /\ login.events = SubSeq(EventOrder, 1, Len(login.events)))
    /\ [][\/ login'.events = login.events
          \/ login'.events = Append(login.events, EventOrder[Len(login.events) + 1])]_vars

\* a login that has emitted all five events
C21_Witness == login.events = EventOrder

\* the steps that obtain a token, each with its event
TokenSteps == {"token", "xbl", "xsts", "launcher"}
StepEvent ==
    [step \in TokenSteps |->
        CASE step = "token" -> "auth:msa:msa_token"
          [] step = "xbl" -> "auth:msa:xbl_token"
          [] step = "xsts" -> "auth:msa:xsts_token"
          [] step = "launcher" -> "auth:msa:mc_token"]

\* what the step's request was answered with, "none" before it
StepAnswer(step) ==
    IF step = "token" THEN login.last ELSE login.answers[step]

\* answers that are an error response or do not deserialize
ErrorAnswers ==
    {"transport_error", "bad_json", "x_err", "slow_down", "authorization_declined",
     "bad_verification_code", "expired_token"}

Emitted(event) == \E i \in 1..Len(login.events) : login.events[i] = event

\* C22: each of msa_token, xbl_token, xsts_token and mc_token is emitted
\* only after its step's token was obtained from the response; when a
\* step's response is an error or does not deserialize, the step's event
\* is not emitted and login_msa returns an error message.
C22_EventsSignalSuccess ==
    \A step \in TokenSteps :
        /\ Emitted(StepEvent[step]) => StepAnswer(step) \in {"ok", "token"}
        /\ StepAnswer(step) \in ErrorAnswers
              => /\ ~Emitted(StepEvent[step])
                 /\ login.pc = "done" /\ LoginMsa(login) # None

(***************************************************************************)
(* The grammar group:artifact:version[:classifier][@extension], stated on  *)
(* the separators of the whole string                                      *)
(***************************************************************************)
MatchesGrammar(s) ==
    LET colons == {i \in 1..Len(s) : s[i] = ":"}
        ats    == {i \in 1..Len(s) : s[i] = "@"}
        seps   == colons \cup ats
    IN  /\ Len(s) >= 1
        /\ Cardinality(colons) \in {2, 3}
        /\ Cardinality(ats) <= 1
        /\ \A a \in ats : \A c \in colons : c < a
        /\ 1 \notin seps /\ Len(s) \notin seps
        /\ \A i \in seps : i + 1 \notin seps

\* the parsed coordinate of the call, and its pieces as the path uses them
Coordinate == Unwrap(Captures(np.name))
Directory ==
    [i \in 1..Len(Coordinate.group) |->
        IF Coordinate.group[i] = "." THEN "/" ELSE Coordinate.group[i]]
        \o <<"/">> \o Coordinate.name \o <<"/">> \o Coordinate.version \o <<"/">>
EffectiveClassifier ==
    IF np.classifier # None THEN np.classifier ELSE Coordinate.classifier
ClassifierSegment ==
    IF EffectiveClassifier = None THEN <<>> ELSE <<"-">> \o EffectiveClassifier[1]
Extension ==
    IF Coordinate.extension = None THEN <<"j", "a", "r">>
    ELSE Coordinate.extension[1]

\* C15: for every parsed coordinate and optional classifier override,
\* name_to_path returns the group with every '.' replaced by '/', then
\* '/' artifact '/' version '/' and the file name
\* artifact-version[-classifier].extension, where the classifier is the
\* override if given and else the coordinate's own (no segment when both
\* are absent) and the extension is the coordinate's or 'jar'.
C15_PathDerivation ==
    (np.pc = "done" /\ IsSome(Captures(np.name)))
        => np.out = Some(Directory \o Coordinate.name \o <<"-">>
                            \o Coordinate.version \o ClassifierSegment
                            \o <<".">> \o Extension)

\* a coordinate with dots in its group, a classifier of its own that the
\* override replaces, and an extension
C15_Witness ==
    /\ np.pc = "done"
    /\ np.name = <<"a", ".", "a", ":", "a", ":", "a", ":", "a", "@", "a">>
    /\ np.classifier = Some(<<"n">>)
    /\ np.out = Some(<<"a", "/", "a", "/", "a", "/", "a", "/",
                       "a", "-", "a", "-", "n", ".", "a">>)

\* the captured fields written back as group:artifact:version[:classifier]
\* [@extension], an absent optional field leaving nothing
Serialize(c) ==
    c.group \o <<":">> \o c.name \o <<":">> \o c.version
        \o (IF c.classifier = None THEN <<>> ELSE <<":">> \o c.classifier[1])
        \o (IF c.extension = None THEN <<>> ELSE <<"@">> \o c.extension[1])

\* the structured value of a parse
Fields(c) == <<c.group, c.name, c.version, c.classifier, c.extension>>

\* the second parse finds a coordinate, the one the first parse found
SameCoordinate(first, second) ==
    second # None /\ Fields(second[1]) = Fields(first[1])

Reparsed(first) == SameCoordinate(first, Captures(Serialize(first[1])))

\* C18: for every string that matches the grammar, the coordinate regex
\* finds a coordinate, and parsing the re-serialized coordinate gives the
\* same (group, artifact, version, classifier, extension).
C18_RoundTrip ==
    (np.pc = "done" /\ MatchesGrammar(np.name))
        => Captures(np.name) # None /\ Reparsed(Captures(np.name))

\* a coordinate with classifier and extension, whose serialization is the
\* string it was parsed from
C18_Witness ==
    /\ np.pc = "done"
    /\ MatchesGrammar(np.name)
    /\ Coordinate.classifier # None /\ Coordinate.extension # None
    /\ Coordinate.group # Coordinate.name
    /\ Serialize(Coordinate) = np.name

\* C7: name_to_path returns a path only for strings that match the grammar
\* in their entirety; any other string yields None.
C7_TotalOrFails ==
    np.pc = "done" => (IsSome(np.out) <=> MatchesGrammar(np.name))

====
